---- MODULE Spec2Model ----
(***************************************************************************)
(* Lexicon reader: session/idle tracking, paginated rendering, bookmarks   *)
(* and highlights, modelled from src/components/Reader.tsx, src/App.tsx    *)
(* and src/db.ts.                                                          *)
(*                                                                         *)
(* Time is counted in milliseconds.  The tracker's interval callback runs  *)
(* every TickMs; user-activity signals fall between two callbacks.         *)
(***************************************************************************)
EXTENDS Integers, Sequences, FiniteSets, TLC

(* ---------------- program constants ---------------- *)
TickMs == 1000
MaxTabs == 5
IdleMs == 60000
MinLogMs == 5000
MinSessionMs == 60000
ThumbCap == 500000

(* ---------------- bounds ---------------- *)
MaxDurationMs == 131000
NumPages == 2
MaxInFlight == 2
MaxBookmarks == 2
MaxHighlights == 2
NavMaxBookmarks == 1
NavMaxHighlights == 1
LibMaxSessions == 1
MaxTabIds == 6
MultiMaxTabs == 2
MaxOpening == 2
MaxCollections == 2

(* ---------------- the 30 s / 90 s / 40 s scenario ---------------- *)
ScenarioBusy1Ms == 30 * TickMs
ScenarioQuietMs == 90 * TickMs
ScenarioBusy2Ms == 40 * TickMs
ScenarioTotalMs == ScenarioBusy1Ms + ScenarioQuietMs + ScenarioBusy2Ms
QuietCapMs == IdleMs + TickMs

Min(a, b) == IF a <= b THEN a ELSE b

VARIABLES
  book,             \* id of the document shown by the reader view
  mounted,          \* the reader view is mounted (its effects are set up)
  isIdle,           \* isIdle.current
  idleTimeout,      \* idleTimeout.current: [pending, dueIn]
  activeDuration,   \* activeDuration.current
  readingSessions,  \* db.readingSessions, in insertion order
  signalled,        \* history: an activity signal arrived since the last tick
  quietMs,          \* history: ms of ticks since the last signal (or mount)
  onScenario,       \* history: the ticks so far follow the 30/90/40 scenario
  scenarioMs        \* history: ms of the scenario elapsed

VARIABLES
  settings,         \* the settings state is loaded (not null)
  pdfDoc,           \* the pdfDoc state is set
  numPages,         \* numPages state
  pdfPageNum,       \* pdfPageNum state
  renderDeps,       \* the dependencies the render effect last ran with
  renders,          \* the renderPage invocations in flight, by slot
  renderTaskRef,    \* renderTaskRef.current: slot of a running task, or 0
  canvas,           \* pages whose raster was drawn since the canvas was sized
  textLayer,        \* pages whose text divs are in the text layer
  pdfRendering,     \* pdfRendering state
  books,            \* db.books: per document, whether it is in the table
                    \* and its persisted page and progress
  startPage,        \* initialLocation?.page || book.currentPage || 1 at mount,
                    \* 0 once loadPdf has read it
  lastRequest,      \* history: the last page request, if it left the range
  loadFailed,       \* the promise of loadPdf was rejected
  superseded        \* history: a render task of this view was cancelled by
                    \* a newer renderPage

VARIABLES
  tab,              \* the document that has a tab, or "none"
  tabLocation,      \* tabLocations[tab.id]: page and cfi, 0 and "" if absent
  bookmarks,        \* db.bookmarks
  bookmarksView,    \* the bookmarks live-query result the view last rendered
  nextBookmark,     \* number of bookmark ids drawn so far
  lastOps           \* history: the last two writes to db.bookmarks made
                    \* since the view came to the current page

VARIABLES
  highlights,         \* db.highlights
  highlightsView,     \* the highlights live-query result the view last rendered
  nextHighlight,      \* number of highlight ids drawn so far
  selectionMenu,      \* selectionMenu state: [open, rects, range, cfiRange]
  activeHighlightId,  \* activeHighlightId state, 0 for null
  selectionPending,   \* the 10 ms timer of handleTextSelection is armed
  epubRendition,      \* the epubRendition state is set
  annotations,        \* anchor tokens registered with rendition.annotations
  deletedHighlights,  \* history: the highlights deleted so far
  clickTimer          \* the armed timer comes from the mouseup of a click on
                      \* an overlay rectangle: id of its highlight, else 0

VARIABLES
  tabs,             \* db.tabs: the tab records, [id, bookId]
  tabsView,         \* the tabs live-query result App last rendered
  nextTab,          \* number of tab ids drawn so far
  activeTabId,      \* activeTabId state, 0 for null
  view,             \* view state: "library" or "reader"
  opening,          \* the tabs whose handleOpenBook awaits saveTab
  readers,          \* per tab id, the reader mounted for it: its settings
                    \* state and its session refs
  settingsDb,       \* db.settings: the value of 'user-preferences'
  chosen,           \* history: per field, the value the user chose last
  collections       \* db.collections: per id, whether it is in the table
                    \* and its bookIds

appVars == <<tabs, tabsView, nextTab, activeTabId, view, opening, readers,
             settingsDb, chosen, collections>>

sessionVars == <<isIdle, idleTimeout, activeDuration,
                 readingSessions, signalled, quietMs, onScenario, scenarioMs>>

pdfVars == <<settings, pdfDoc, numPages, pdfPageNum, startPage,
             lastRequest, loadFailed>>

renderVars == <<renderDeps, renders, renderTaskRef, canvas, textLayer,
                pdfRendering, books, superseded>>

tabVars == <<tab, tabLocation>>

bookmarkVars == <<bookmarks, bookmarksView, nextBookmark, lastOps>>

highlightVars == <<highlights, highlightsView, nextHighlight, selectionMenu,
                   activeHighlightId, selectionPending, epubRendition,
                   annotations, deletedHighlights, clickTimer>>

viewVars == <<pdfVars, renderVars, tabVars, bookmarkVars, highlightVars>>

\* the single reader view and its tables, but for db.readingSessions
readerViewVars == <<book, mounted, isIdle, idleTimeout, activeDuration,
                    signalled, quietMs, onScenario, scenarioMs, viewVars>>

vars == <<book, mounted, sessionVars, viewVars, appVars>>

Books == {"b1", "b2", "b3"}

TabIds == 1..MaxTabIds

Collections == 1..MaxCollections

\* the fields of ReadingSettings the settings panel changes
Themes == {"night", "day"}

FontSizes == {18, 20}

\* the defaults initSettings stores when nothing is stored
DefaultSettings == [theme |-> "night", fontSize |-> 18]

NoSettings == [theme |-> "", fontSize |-> 0]

\* a collection id that was not drawn yet; ids are not drawn twice
NoCollection == [present |-> FALSE, drawn |-> FALSE, bookIds |-> {}]

NoLocation == [page |-> 0, cfi |-> ""]

NoRequest == [from |-> 0, to |-> 0]

NoMenu == [open |-> FALSE, rects |-> FALSE, range |-> FALSE,
           cfiRange |-> ""]

HighlightColors == {"yellow", "blue"}

\* what window.getSelection() holds when the selection timer fires
SelectionKinds == {"collapsed", "blank", "inside", "outside"}

NoTimer == [pending |-> FALSE, dueIn |-> 0]

\* no reader is mounted for the tab
NoReader == [mounted |-> FALSE, bookId |-> "none", settings |-> NoSettings,
             isIdle |-> FALSE, idleTimeout |-> NoTimer, activeDuration |-> 0]

\* the reader of a tab of document b right after its mount
NewReader(b) == [NoReader EXCEPT !.mounted = TRUE, !.bookId = b]

Pages == 1..NumPages

RenderSlots == 1..MaxInFlight

FreeSlot == [pc |-> "free", page |-> 0, total |-> 0, live |-> FALSE,
             bookId |-> "none"]

\* book.format of the documents of the library
BookFormat(b) == IF b = "b1" THEN "pdf" ELSE IF b = "b2" THEN "txt" ELSE "epub"

BookmarkTypes == {"standard", "favorite"}

\* thumbnail lengths toDataURL can return; 0 stands for no thumbnail
ThumbLengths == {0, ThumbCap, ThumbCap + 1}

\* the history of bookmark writes once the step has set the page
OpsAfterMove == IF pdfPageNum' # pdfPageNum THEN <<>> ELSE lastOps

\* the dependency array of the render effect
CurrentDeps == [doc |-> pdfDoc, page |-> pdfPageNum, settings |-> settings]

(* ---------------- db.ts ---------------- *)

\* logReadingSession(bookId, durationMs): the sessions table afterwards
logReadingSession(sessions, bookId, durationMs) ==
  IF durationMs < MinSessionMs
    THEN sessions
    ELSE Append(sessions, [bookId |-> bookId, duration |-> durationMs])

(* ---------------- Reader.tsx: session and idle tracking ---------------- *)

\* handleUserActivity: any of mousemove, keydown, click, scroll, touchstart
handleUserActivity ==
  /\ mounted
  /\ isIdle' = FALSE
  /\ idleTimeout' = [pending |-> TRUE, dueIn |-> IdleMs]
  /\ signalled' = TRUE
  /\ quietMs' = 0
  /\ UNCHANGED <<appVars, book, mounted, activeDuration, readingSessions,
                 onScenario, scenarioMs, viewVars>>

\* the scenario expects an activity signal in the slot that ends at time t
ScenarioExpectsBusy(t) ==
  \/ t <= ScenarioBusy1Ms
  \/ t > ScenarioBusy1Ms + ScenarioQuietMs

\* setInterval callback: one second has passed
IntervalTickCountsIdle ==
  /\ mounted
  /\ ~(idleTimeout.pending /\ idleTimeout.dueIn = 0)
  /\ activeDuration + TickMs <= MaxDurationMs
  /\ activeDuration' = activeDuration + TickMs
  /\ idleTimeout' = IF idleTimeout.pending
                      THEN [idleTimeout EXCEPT !.dueIn = @ - TickMs]
                      ELSE idleTimeout
  /\ signalled' = FALSE
  /\ quietMs' = IF signalled THEN 0 ELSE Min(quietMs + TickMs, QuietCapMs)
  /\ LET t == scenarioMs + TickMs
         follows == /\ onScenario
                    /\ t <= ScenarioTotalMs
                    /\ (signalled <=> ScenarioExpectsBusy(t))
     IN /\ onScenario' = follows
        /\ scenarioMs' = IF follows THEN t ELSE 0
  /\ UNCHANGED <<appVars, book, mounted, isIdle, readingSessions, viewVars>>

IntervalTick ==
  /\ mounted
  /\ ~(idleTimeout.pending /\ idleTimeout.dueIn = 0)
  /\ (isIdle \/ activeDuration + TickMs <= MaxDurationMs)
  /\ activeDuration' = IF ~isIdle THEN activeDuration + TickMs
                       ELSE activeDuration
  /\ idleTimeout' = IF idleTimeout.pending
                      THEN [idleTimeout EXCEPT !.dueIn = @ - TickMs]
                      ELSE idleTimeout
  /\ signalled' = FALSE
  /\ quietMs' = IF signalled THEN 0 ELSE Min(quietMs + TickMs, QuietCapMs)
  /\ LET t == scenarioMs + TickMs
         follows == /\ onScenario
                    /\ t <= ScenarioTotalMs
                    /\ (signalled <=> ScenarioExpectsBusy(t))
     IN /\ onScenario' = follows
        /\ scenarioMs' = IF follows THEN t ELSE 0
  /\ UNCHANGED <<appVars, book, mounted, isIdle, readingSessions, viewVars>>

\* the setTimeout callback armed by handleUserActivity
IdleTimeoutFires ==
  /\ mounted
  /\ idleTimeout.pending
  /\ idleTimeout.dueIn = 0
  /\ isIdle' = TRUE
  /\ idleTimeout' = NoTimer
  /\ UNCHANGED <<appVars,
                 book, mounted, activeDuration, readingSessions, signalled,
                 quietMs, onScenario, scenarioMs, viewVars>>

(* ---------------- Reader.tsx: paginated renderer ---------------- *)

\* updateBookPage(id, currentPage, totalPages); progress is kept as the
\* fraction currentPage * 100 / totalPages; db.books.update changes nothing
\* when the key is not in the table
updateBookPage(bs, id, currentPage, totalPages) ==
  IF bs[id].present
    THEN [bs EXCEPT ![id].currentPage = currentPage,
                    ![id].totalPages = totalPages,
                    ![id].progress = [num |-> currentPage * 100,
                                      den |-> totalPages]]
    ELSE bs

\* initSettings().then(setSettings)
SettingsLoaded ==
  /\ mounted
  /\ ~settings
  /\ settings' = TRUE
  /\ UNCHANGED <<appVars,
                 book, mounted, sessionVars, pdfDoc, numPages, pdfPageNum,
                 startPage, lastRequest, loadFailed, renderVars, tabVars,
                 bookmarkVars,
                 highlightVars>>

\* loadPdf has read and parsed the file
LoadPdfDone ==
  /\ mounted
  /\ BookFormat(book) = "pdf"
  /\ ~pdfDoc
  /\ ~loadFailed
  /\ pdfDoc' = TRUE
  /\ numPages' = NumPages
  /\ pdfPageNum' = IF startPage <= NumPages THEN startPage ELSE pdfPageNum
  /\ startPage' = 0
  /\ lastRequest' = NoRequest
  /\ lastOps' = OpsAfterMove
  /\ UNCHANGED <<appVars, book, mounted, sessionVars, settings, loadFailed,
                 renderVars, tabVars, bookmarks, bookmarksView, nextBookmark,
                 highlightVars>>

\* loadPdf: book.file.arrayBuffer() or the loading task rejects.  loadPdf
\* has no catch and its promise is dropped, so nothing else happens
LoadPdfFails ==
  /\ mounted
  /\ BookFormat(book) = "pdf"
  /\ ~pdfDoc
  /\ ~loadFailed
  /\ loadFailed' = TRUE
  /\ UNCHANGED <<appVars,
                 book, mounted, sessionVars, settings, pdfDoc, numPages,
                 pdfPageNum, startPage, lastRequest, renderVars, tabVars,
                 bookmarkVars, highlightVars>>

\* what the main renderer area of the view shows: nothing until the
\* settings are loaded; for a pdf the canvas, under a spinner while
\* pdfRendering; for an epub the container once epubReady is set with the
\* rendition, a spinner before; the text of any other document
ReaderShows ==
  IF ~settings THEN "nothing"
  ELSE IF BookFormat(book) = "pdf"
    THEN IF pdfRendering THEN "spinner"
         ELSE IF canvas # {} THEN "page" ELSE "blank"
  ELSE IF BookFormat(book) = "epub"
    THEN IF epubRendition THEN "content" ELSE "spinner"
  ELSE "text"

\* changePdfPage(delta)
changePdfPageNoUpperBound(delta) ==
  /\ mounted
  /\ settings
  /\ BookFormat(book) = "pdf"
  /\ LET newPage == pdfPageNum + delta
     IN /\ pdfPageNum' = IF newPage >= 1 THEN newPage ELSE pdfPageNum
        /\ lastRequest' = IF newPage >= 1 /\ newPage <= numPages
                            THEN NoRequest
                            ELSE [from |-> pdfPageNum, to |-> newPage]
  /\ selectionMenu' = NoMenu
  /\ lastOps' = OpsAfterMove
  /\ UNCHANGED <<appVars,
                 book, mounted, sessionVars, settings, pdfDoc, numPages,
                 startPage, loadFailed, renderVars, tabVars, bookmarks,
                 bookmarksView,
                 nextBookmark, highlights,
                 highlightsView, nextHighlight, activeHighlightId,
                 selectionPending, epubRendition, annotations,
                 deletedHighlights, clickTimer>>

changePdfPage(delta) ==
  /\ mounted
  /\ settings
  /\ BookFormat(book) = "pdf"
  /\ LET newPage == pdfPageNum + delta
     IN /\ pdfPageNum' = IF newPage >= 1 /\ newPage <= numPages
                           THEN newPage ELSE pdfPageNum
        /\ lastRequest' = IF newPage >= 1 /\ newPage <= numPages
                            THEN NoRequest
                            ELSE [from |-> pdfPageNum, to |-> newPage]
  /\ selectionMenu' = NoMenu
  /\ lastOps' = OpsAfterMove
  /\ UNCHANGED <<appVars,
                 book, mounted, sessionVars, settings, pdfDoc, numPages,
                 startPage, loadFailed, renderVars, tabVars, bookmarks,
                 bookmarksView,
                 nextBookmark, highlights,
                 highlightsView, nextHighlight, activeHighlightId,
                 selectionPending, epubRendition, annotations,
                 deletedHighlights, clickTimer>>

\* the render effect runs because pdfDoc, pdfPageNum or the scale changed;
\* renderPage runs up to its first suspension, await pdfDoc.getPage
RenderPageEffect ==
  /\ mounted
  /\ renderDeps # CurrentDeps
  /\ renderDeps' = CurrentDeps
  /\ IF ~pdfDoc \/ ~settings
       THEN UNCHANGED <<renders, renderTaskRef, pdfRendering, superseded>>
       ELSE \E s \in RenderSlots :
              /\ renders[s].pc = "free"
              /\ \A q \in RenderSlots : q < s => renders[q].pc # "free"
              /\ renders' =
                   [r \in RenderSlots |->
                      IF r = s
                        THEN [pc |-> "getPage", page |-> pdfPageNum,
                              total |-> numPages, live |-> TRUE,
                              bookId |-> book]
                      ELSE IF r = renderTaskRef THEN FreeSlot
                      ELSE renders[r]]
              /\ renderTaskRef' = 0
              /\ pdfRendering' = TRUE
              /\ superseded' = (superseded \/ renderTaskRef # 0)
  /\ UNCHANGED <<appVars,
                 book, mounted, sessionVars, pdfVars, canvas, textLayer,
                 books, tabVars, bookmarkVars, highlightVars>>

\* getPage has resolved: the canvas is sized and page.render is called; an
\* engine that refuses a canvas that is in use by another task rejects.  In
\* an unmounted view canvasRef.current is null and renderPage ends
RasterStart(r, rejected) ==
  /\ renders[r].pc = "getPage"
  /\ rejected => /\ renders[r].live
                 /\ \E q \in RenderSlots : renders[q].pc = "raster"
  /\ IF ~renders[r].live
       THEN /\ renders' = [renders EXCEPT ![r] = FreeSlot]
            /\ UNCHANGED <<canvas, renderTaskRef, pdfRendering>>
       ELSE /\ canvas' = {}
            /\ IF rejected
                 THEN /\ renders' = [renders EXCEPT ![r] = FreeSlot]
                      /\ renderTaskRef' = 0
                      /\ pdfRendering' = FALSE
                 ELSE /\ renders' = [renders EXCEPT ![r].pc = "raster"]
                      /\ renderTaskRef' = r
                      /\ UNCHANGED pdfRendering
  /\ UNCHANGED <<appVars,
                 book, mounted, sessionVars, pdfVars, renderDeps, textLayer,
                 books, superseded, tabVars, bookmarkVars, highlightVars>>

\* renderTask.promise has resolved: the text layer is emptied and
\* page.getTextContent is awaited.  In an unmounted view textLayerRef.current
\* is null: the text layer is skipped and updateBookPage is called at once
RasterCompletes(r) ==
  /\ renders[r].pc = "raster"
  /\ IF renders[r].live
       THEN /\ canvas' = canvas \cup {renders[r].page}
            /\ textLayer' = {}
            /\ renders' = [renders EXCEPT ![r].pc = "textContent"]
            /\ renderTaskRef' = IF renderTaskRef = r THEN 0 ELSE renderTaskRef
            /\ UNCHANGED books
       ELSE /\ books' = updateBookPage(books, renders[r].bookId,
                                       renders[r].page, renders[r].total)
            /\ renders' = [renders EXCEPT ![r] = FreeSlot]
            /\ UNCHANGED <<canvas, textLayer, renderTaskRef>>
  /\ UNCHANGED <<appVars, book, mounted, sessionVars, pdfVars, renderDeps,
                 pdfRendering, superseded, tabVars, bookmarkVars,
                 highlightVars>>

\* getTextContent has resolved: renderTextLayer, setPdfRendering(false),
\* updateBookPage.  In an unmounted view renderTextLayer gets a null
\* container; if it throws, the catch block ends renderPage
TextLayerBuiltKeepsIndicator(r, threw) ==
  /\ renders[r].pc = "textContent"
  /\ threw => ~renders[r].live
  /\ IF renders[r].live
       THEN /\ textLayer' = textLayer \cup {renders[r].page}
            /\ UNCHANGED pdfRendering
       ELSE UNCHANGED <<textLayer, pdfRendering>>
  /\ books' = IF threw THEN books
              ELSE updateBookPage(books, renders[r].bookId, renders[r].page,
                                  renders[r].total)
  /\ renders' = [renders EXCEPT ![r] = FreeSlot]
  /\ UNCHANGED <<appVars, book, mounted, sessionVars, pdfVars, renderDeps,
                 renderTaskRef, canvas, superseded, tabVars, bookmarkVars,
                 highlightVars>>

TextLayerBuilt(r, threw) ==
  /\ renders[r].pc = "textContent"
  /\ threw => ~renders[r].live
  /\ IF renders[r].live
       THEN /\ textLayer' = textLayer \cup {renders[r].page}
            /\ pdfRendering' = FALSE
       ELSE UNCHANGED <<textLayer, pdfRendering>>
  /\ books' = IF threw THEN books
              ELSE updateBookPage(books, renders[r].bookId, renders[r].page,
                                  renders[r].total)
  /\ renders' = [renders EXCEPT ![r] = FreeSlot]
  /\ UNCHANGED <<appVars, book, mounted, sessionVars, pdfVars, renderDeps,
                 renderTaskRef, canvas, superseded, tabVars, bookmarkVars,
                 highlightVars>>

(* ---------------- db.ts: bookmarks ---------------- *)

\* addBookmark(bookmark): the bookmarks table afterwards
addBookmarkDropsAtCap(bms, bm) ==
  bms \cup {[bm EXCEPT !.thumbnail =
               IF bm.thumbnail # 0 /\ bm.thumbnail >= ThumbCap THEN 0 ELSE @]}

addBookmark(bms, bm) ==
  bms \cup {[bm EXCEPT !.thumbnail =
               IF bm.thumbnail # 0 /\ bm.thumbnail > ThumbCap THEN 0 ELSE @]}

\* deleteBookmark(id)
deleteBookmarkKeepsRecord(bms, id) == bms

deleteBookmark(bms, id) == {b \in bms : b.id # id}

\* getBookBookmarks(bookId); ids grow with the timestamp the result is
\* sorted by
getBookBookmarks(bms, bookId) == {b \in bms : b.bookId = bookId}

(* ---------------- Reader.tsx: bookmarks ---------------- *)

\* getCurrentBookmark(): the candidates bookmarks.find looks through
CurrentBookmarksAnyFormat ==
  IF BookFormat(book) = "pdf"
    THEN {b \in bookmarksView : b.page = pdfPageNum}
    ELSE bookmarksView

CurrentBookmarks ==
  IF BookFormat(book) = "pdf"
    THEN {b \in bookmarksView : b.page = pdfPageNum}
    ELSE {}

\* getCurrentBookmark(): the first match in descending timestamp order
getCurrentBookmark ==
  CHOOSE b \in CurrentBookmarks : \A c \in CurrentBookmarks : c.id <= b.id

\* the last two writes to db.bookmarks on the current page
Remember(op) ==
  IF Len(lastOps) < 2 THEN Append(lastOps, op) ELSE <<lastOps[2], op>>

\* number of stored bookmarks of document d at page p
BookmarksAt(d, p) ==
  Cardinality({b \in bookmarks : b.bookId = d /\ b.page = p})

\* handleToggleBookmark(type); thumb is what the thumbnail generation yields
handleToggleBookmark(type, thumb) ==
  /\ mounted
  /\ settings
  /\ thumb # 0 => BookFormat(book) = "pdf"
  /\ LET page == IF BookFormat(book) = "pdf" THEN pdfPageNum ELSE 0
         op == [kind |-> "toggle", bookId |-> book, page |-> page,
                type |-> type, thumb |-> thumb,
                before |-> BookmarksAt(book, page),
                saw |-> CurrentBookmarks # {}]
     IN IF CurrentBookmarks # {}
          THEN /\ bookmarks' = deleteBookmark(bookmarks, getCurrentBookmark.id)
               /\ lastOps' = Remember(op)
               /\ UNCHANGED nextBookmark
          ELSE /\ nextBookmark < MaxBookmarks
               /\ nextBookmark' = nextBookmark + 1
               /\ bookmarks' =
                    addBookmark(bookmarks,
                      [id |-> nextBookmark + 1,
                       bookId |-> book,
                       type |-> type,
                       percentage |->
                         IF BookFormat(book) = "pdf"
                           THEN [num |-> pdfPageNum * 100, den |-> numPages]
                           ELSE books[book].progress,
                       page |-> page,
                       thumbnail |-> thumb])
               /\ lastOps' = Remember(op)
  /\ UNCHANGED <<appVars,
                 book, mounted, sessionVars, pdfVars, renderVars, tabVars,
                 bookmarksView, highlightVars>>

\* the bookmarks live query delivers a new result and the view renders it
BookmarksLiveQuery ==
  /\ mounted
  /\ bookmarksView # getBookBookmarks(bookmarks, book)
  /\ bookmarksView' = getBookBookmarks(bookmarks, book)
  /\ UNCHANGED <<appVars,
                 book, mounted, sessionVars, pdfVars, renderVars, tabVars,
                 bookmarks, nextBookmark, lastOps, highlightVars>>

\* handleJumpToBookmark(b), b an entry of the bookmarks panel
handleJumpToBookmark(b) ==
  /\ mounted
  /\ settings
  /\ b \in bookmarksView
  /\ pdfPageNum' = IF BookFormat(book) = "pdf" /\ b.page # 0
                     THEN b.page ELSE pdfPageNum
  /\ lastRequest' = IF BookFormat(book) = "pdf" /\ b.page # 0
                      THEN NoRequest ELSE lastRequest
  /\ lastOps' = OpsAfterMove
  /\ UNCHANGED <<appVars,
                 book, mounted, sessionVars, settings, pdfDoc, numPages,
                 startPage, loadFailed, renderVars, tabVars, bookmarks,
                 bookmarksView,
                 nextBookmark, highlightVars>>

\* the delete button of an entry of the bookmarks panel
PanelDeleteBookmark(b) ==
  /\ mounted
  /\ settings
  /\ b \in bookmarksView
  /\ bookmarks' = deleteBookmark(bookmarks, b.id)
  /\ lastOps' = Remember([kind |-> "delete", bookId |-> b.bookId,
                          page |-> b.page, type |-> b.type, thumb |-> 0,
                          before |-> BookmarksAt(b.bookId, b.page),
                          saw |-> TRUE])
  /\ UNCHANGED <<appVars,
                 book, mounted, sessionVars, pdfVars, renderVars, tabVars,
                 bookmarksView, nextBookmark, highlightVars>>

(* ---------------- db.ts: highlights ---------------- *)

\* addHighlight(highlight): db.highlights.add.  The primary key is a random
\* UUID; key is its rank among the primary keys of the table, so the
\* records with a rank of h.key or more move up by one
addHighlight(hs, h) ==
  {IF g.key >= h.key THEN [g EXCEPT !.key = @ + 1] ELSE g : g \in hs}
    \cup {h}

\* deleteHighlight(id)
deleteHighlightKeepsRecord(hs, id) == hs

deleteHighlight(hs, id) == {h \in hs : h.id # id}

\* updateHighlightColor(id, color)
updateHighlightColor(hs, id, color) ==
  {IF h.id = id THEN [h EXCEPT !.color = color] ELSE h : h \in hs}

\* getBookHighlights(bookId): the records of the document; toArray lists
\* them by ascending primary key, the key field
getBookHighlights(hs, bookId) == {h \in hs : h.bookId = bookId}

(* ---------------- Reader.tsx: selection and highlights ---------------- *)

\* handleTextSelection(e) on mouseup or touchend outside buttons: the
\* listener is registered for every format but epub; it arms a 10 ms timer
handleTextSelection ==
  /\ mounted
  /\ BookFormat(book) # "epub"
  /\ ~selectionPending
  /\ selectionPending' = TRUE
  /\ UNCHANGED <<appVars,
                 book, mounted, sessionVars, pdfVars, renderVars, tabVars,
                 bookmarkVars, highlights, highlightsView, nextHighlight,
                 selectionMenu, activeHighlightId, epubRendition, annotations,
                 deletedHighlights, clickTimer>>

\* the timer callback of handleTextSelection; kind is the selection it finds
SelectionTimer(kind) ==
  /\ mounted
  /\ selectionPending
  /\ selectionPending' = FALSE
  /\ clickTimer' = 0
  /\ selectionMenu' =
       IF kind = "collapsed" THEN NoMenu
       ELSE IF kind = "blank" THEN selectionMenu
       ELSE IF BookFormat(book) = "pdf" /\ settings
         THEN IF kind = "inside"
                THEN [open |-> TRUE, rects |-> TRUE, range |-> FALSE,
                      cfiRange |-> ""]
                ELSE selectionMenu
       ELSE IF BookFormat(book) = "txt"
         THEN [open |-> TRUE, rects |-> FALSE, range |-> FALSE,
               cfiRange |-> ""]
       ELSE selectionMenu
  /\ UNCHANGED <<appVars,
                 book, mounted, sessionVars, pdfVars, renderVars, tabVars,
                 bookmarkVars, highlights, highlightsView, nextHighlight,
                 activeHighlightId, epubRendition, annotations,
                 deletedHighlights>>

\* onClick of an overlay rectangle of highlight hl on the current page; the
\* mouseup of the same click has run handleTextSelection
HighlightClick(hl) ==
  /\ mounted
  /\ settings
  /\ BookFormat(book) = "pdf"
  /\ hl \in highlightsView
  /\ hl.page = pdfPageNum
  /\ hl.rects
  /\ activeHighlightId' = hl.id
  /\ selectionMenu' = [open |-> TRUE, rects |-> FALSE, range |-> FALSE,
                       cfiRange |-> ""]
  /\ selectionPending' = TRUE
  /\ clickTimer' = hl.id
  /\ UNCHANGED <<appVars,
                 book, mounted, sessionVars, pdfVars, renderVars, tabVars,
                 bookmarkVars, highlights, highlightsView, nextHighlight,
                 epubRendition, annotations, deletedHighlights>>

\* the highlight overlay of the pdf page: one rectangle per stored rect of
\* every highlight of the live-query result whose page is pdfPageNum,
\* placed at the stored fractions of the page surface
Overlay ==
  {[id |-> h.id, rects |-> h.rects] :
     h \in {g \in highlightsView : g.page = pdfPageNum /\ g.rects}}

\* the overlay draws g before h, so h lies on top of g: the overlay maps
\* the live-query array in its order, and toArray lists the records of a
\* document by ascending primary key
DrawnBefore(g, h) == g.key < h.key

\* a colour button of the selection menu: updateHighlightColor for the
\* active highlight, createHighlight(color) otherwise
ColourButton(color) ==
  /\ mounted
  /\ settings
  /\ selectionMenu.open
  /\ IF activeHighlightId # 0
       THEN /\ highlights' =
                 updateHighlightColor(highlights, activeHighlightId, color)
            /\ activeHighlightId' = 0
            /\ UNCHANGED <<nextHighlight, annotations>>
       ELSE /\ nextHighlight < MaxHighlights
            /\ nextHighlight' = nextHighlight + 1
            /\ \E key \in 1..(Cardinality(highlights) + 1) :
                 highlights' =
                   addHighlight(highlights,
                     [id |-> nextHighlight + 1,
                      key |-> key,
                      bookId |-> book,
                      color |-> color,
                      createdAt |-> nextHighlight + 1,
                      page |-> IF BookFormat(book) = "pdf"
                                 THEN pdfPageNum ELSE 0,
                      rects |-> selectionMenu.rects,
                      range |-> selectionMenu.range,
                      cfiRange |-> selectionMenu.cfiRange])
            /\ annotations' =
                 IF /\ BookFormat(book) = "epub"
                    /\ epubRendition
                    /\ selectionMenu.cfiRange # ""
                   THEN annotations \cup {selectionMenu.cfiRange}
                   ELSE annotations
            /\ UNCHANGED activeHighlightId
  /\ selectionMenu' = NoMenu
  /\ UNCHANGED <<appVars,
                 book, mounted, sessionVars, pdfVars, renderVars, tabVars,
                 bookmarkVars, highlightsView, selectionPending,
                 epubRendition, deletedHighlights,
                 clickTimer>>

\* handleCopy from the selection menu: the menu carries a text
handleCopy ==
  /\ mounted
  /\ settings
  /\ selectionMenu.open
  /\ selectionMenu' = NoMenu
  /\ UNCHANGED <<appVars,
                 book, mounted, sessionVars, pdfVars, renderVars, tabVars,
                 bookmarkVars, highlights, highlightsView, nextHighlight,
                 activeHighlightId, selectionPending, epubRendition,
                 annotations, deletedHighlights, clickTimer>>

\* what a deletion leaves in the history
Deleted(hs, id, via) ==
  {[id |-> h.id, bookId |-> h.bookId, cfiRange |-> h.cfiRange, via |-> via] :
     h \in {g \in hs : g.id = id}}

\* handleDeleteHighlight(activeHighlightId): the delete button of the menu
handleDeleteHighlight ==
  /\ mounted
  /\ settings
  /\ selectionMenu.open
  /\ activeHighlightId # 0
  /\ annotations' =
       IF BookFormat(book) = "epub" /\ epubRendition
         THEN annotations \ {h.cfiRange : h \in {g \in highlightsView :
                               g.id = activeHighlightId /\ g.cfiRange # ""}}
         ELSE annotations
  /\ highlights' = deleteHighlight(highlights, activeHighlightId)
  /\ activeHighlightId' = 0
  /\ deletedHighlights' =
       deletedHighlights \cup Deleted(highlights, activeHighlightId, "reader")
  /\ UNCHANGED <<appVars,
                 book, mounted, sessionVars, pdfVars, renderVars, tabVars,
                 bookmarkVars, highlightsView, nextHighlight, selectionMenu,
                 selectionPending, epubRendition, clickTimer>>

\* the delete button of a card of the quotes view, shown in the library
QuotesDeleteHighlight(h) ==
  /\ ~mounted
  /\ h \in highlights
  /\ highlights' = deleteHighlight(highlights, h.id)
  /\ deletedHighlights' =
       deletedHighlights \cup Deleted(highlights, h.id, "quotes")
  /\ UNCHANGED <<appVars,
                 book, mounted, sessionVars, pdfVars, renderVars, tabVars,
                 bookmarkVars, highlightsView, nextHighlight, selectionMenu,
                 activeHighlightId, selectionPending, epubRendition,
                 annotations, clickTimer>>

\* the highlights live query delivers a new result and the view renders it
HighlightsLiveQuery ==
  /\ mounted
  /\ highlightsView # getBookHighlights(highlights, book)
  /\ highlightsView' = getBookHighlights(highlights, book)
  /\ UNCHANGED <<appVars,
                 book, mounted, sessionVars, pdfVars, renderVars, tabVars,
                 bookmarkVars, highlights, nextHighlight, selectionMenu,
                 activeHighlightId, selectionPending, epubRendition,
                 annotations, deletedHighlights, clickTimer>>

(* ---------------- App.tsx and Reader.tsx: opening and closing ---------- *)

\* the reader view unmounts: the cleanup of the session effect runs, the
\* state of the component is gone, renderPage invocations in flight go on
UnmountView ==
  /\ mounted' = FALSE
  /\ idleTimeout' = NoTimer
  /\ readingSessions' =
       IF activeDuration > MinLogMs
         THEN logReadingSession(readingSessions, book, activeDuration)
         ELSE readingSessions
  /\ settings' = FALSE
  /\ pdfDoc' = FALSE
  /\ numPages' = 0
  /\ pdfPageNum' = 1
  /\ startPage' = 1
  /\ lastRequest' = NoRequest
  /\ loadFailed' = FALSE
  /\ renderDeps' = [doc |-> FALSE, page |-> 1, settings |-> FALSE]
  /\ renders' = [r \in RenderSlots |->
                   IF renders[r].pc = "free" THEN FreeSlot
                   ELSE [renders[r] EXCEPT !.live = FALSE]]
  /\ renderTaskRef' = 0
  /\ canvas' = {}
  /\ textLayer' = {}
  /\ pdfRendering' = FALSE
  /\ superseded' = FALSE
  /\ bookmarksView' = {}
  /\ highlightsView' = {}
  /\ selectionMenu' = NoMenu
  /\ activeHighlightId' = 0
  /\ selectionPending' = FALSE
  /\ epubRendition' = FALSE
  /\ annotations' = {}
  /\ clickTimer' = 0
  /\ lastOps' = <<>>
  /\ UNCHANGED <<appVars, book, isIdle, activeDuration, signalled, quietMs,
                 onScenario, scenarioMs, books, bookmarks, nextBookmark,
                 highlights, nextHighlight, deletedHighlights>>

\* onClose: the back button of the reader sets the view to the library
CloseBook ==
  /\ mounted
  /\ settings
  /\ UnmountView
  /\ UNCHANGED tabVars

\* handleCloseTab of the only tab: deleteTab, then the view is the library
handleCloseTab ==
  /\ mounted
  /\ UnmountView
  /\ tab' = "none"
  /\ tabLocation' = NoLocation

\* the application exits while the reader is open: the page is unloaded, no
\* effect cleanup runs (no handler is registered for the unload), and what
\* was held in memory is gone; the tabs table is kept
AppExit ==
  /\ mounted
  /\ mounted' = FALSE
  /\ idleTimeout' = NoTimer
  /\ settings' = FALSE
  /\ pdfDoc' = FALSE
  /\ numPages' = 0
  /\ pdfPageNum' = 1
  /\ startPage' = 1
  /\ lastRequest' = NoRequest
  /\ loadFailed' = FALSE
  /\ renderDeps' = [doc |-> FALSE, page |-> 1, settings |-> FALSE]
  /\ renders' = [r \in RenderSlots |-> FreeSlot]
  /\ renderTaskRef' = 0
  /\ canvas' = {}
  /\ textLayer' = {}
  /\ pdfRendering' = FALSE
  /\ superseded' = FALSE
  /\ tabLocation' = NoLocation
  /\ bookmarksView' = {}
  /\ highlightsView' = {}
  /\ selectionMenu' = NoMenu
  /\ activeHighlightId' = 0
  /\ selectionPending' = FALSE
  /\ epubRendition' = FALSE
  /\ annotations' = {}
  /\ clickTimer' = 0
  /\ lastOps' = <<>>
  /\ UNCHANGED <<appVars,
                 book, isIdle, activeDuration, readingSessions, signalled,
                 quietMs, onScenario, scenarioMs, books, tab, bookmarks,
                 nextBookmark, highlights, nextHighlight, deletedHighlights>>

\* handleOpenBook(book, location) from the library, and the mount of the
\* reader of that tab; given says whether a location is passed.  The
\* library lists the documents of db.books
handleOpenBook(b, given, location) ==
  /\ ~mounted
  /\ books[b].present
  /\ tab \in {"none", b}
  /\ ~given => location = NoLocation
  /\ given => \E h \in highlights :
                /\ h.bookId = b
                /\ location = [page |-> h.page, cfi |-> h.cfiRange]
  /\ tab' = b
  /\ tabLocation' = IF given THEN location
                    ELSE IF tab = b THEN tabLocation ELSE NoLocation
  /\ mounted' = TRUE
  /\ book' = b
  /\ LET start == IF tabLocation'.page # 0 THEN tabLocation'.page
                  ELSE IF books[b].currentPage # 0 THEN books[b].currentPage
                  ELSE 1
     IN /\ pdfPageNum' = start
        /\ startPage' = start
        /\ renderDeps' = [doc |-> FALSE, page |-> start, settings |-> FALSE]
  /\ isIdle' = FALSE
  /\ idleTimeout' = NoTimer
  /\ activeDuration' = 0
  /\ signalled' = FALSE
  /\ quietMs' = 0
  /\ onScenario' = TRUE
  /\ scenarioMs' = 0
  /\ UNCHANGED <<appVars, readingSessions, settings, pdfDoc, numPages,
                 lastRequest,
                 loadFailed,
                 renders, renderTaskRef, canvas, textLayer, pdfRendering, books,
                 superseded, bookmarkVars, highlightVars>>

(* ---------------- db.ts and Library.tsx: deleting a document ---------- *)

\* what books holds for a document that is not in the table
NoBook == [present |-> FALSE, currentPage |-> 0, totalPages |-> 0,
           progress |-> [num |-> 0, den |-> 1], collectionIds |-> {}]

\* readingSessions.where('bookId').equals(id).delete()
SessionsWithout(sessions, id) ==
  SelectSeq(sessions, LAMBDA s : s.bookId # id)

\* deleteBook(id), from the card of a document in the library: one
\* read-write transaction over books, highlights, bookmarks, readingSessions
\* and tabs.  Reads and writes of these tables by others wait for the
\* transaction, so its five deletions take effect as one step
deleteBookKeepsHighlights(id) ==
  /\ ~mounted
  /\ books[id].present
  /\ books' = [books EXCEPT ![id] = NoBook]
  /\ bookmarks' = {b \in bookmarks : b.bookId # id}
  /\ readingSessions' = SessionsWithout(readingSessions, id)
  /\ tab' = IF tab = id THEN "none" ELSE tab
  /\ tabLocation' = IF tab = id THEN NoLocation ELSE tabLocation
  /\ UNCHANGED <<appVars, book, mounted, isIdle, idleTimeout, activeDuration,
                 signalled, quietMs, onScenario, scenarioMs, pdfVars,
                 renderDeps, renders, renderTaskRef, canvas, textLayer,
                 pdfRendering, superseded, bookmarksView, nextBookmark,
                 lastOps,
                 highlightVars>>

deleteBook(id) ==
  /\ ~mounted
  /\ books[id].present
  /\ books' = [books EXCEPT ![id] = NoBook]
  /\ highlights' = {h \in highlights : h.bookId # id}
  /\ bookmarks' = {b \in bookmarks : b.bookId # id}
  /\ readingSessions' = SessionsWithout(readingSessions, id)
  /\ tab' = IF tab = id THEN "none" ELSE tab
  /\ tabLocation' = IF tab = id THEN NoLocation ELSE tabLocation
  /\ UNCHANGED <<appVars, book, mounted, isIdle, idleTimeout, activeDuration,
                 signalled, quietMs, onScenario, scenarioMs, pdfVars,
                 renderDeps, renders, renderTaskRef, canvas, textLayer,
                 pdfRendering, superseded, bookmarksView, nextBookmark,
                 lastOps,
                 highlightsView, nextHighlight, selectionMenu,
                 activeHighlightId, selectionPending, epubRendition,
                 annotations, deletedHighlights, clickTimer>>

(* ---------------- App.tsx: tabs and their readers ---------------- *)

\* the bookId of the tab with the given id
BookOfTab(ts, id) == (CHOOSE t \in ts : t.id = id).bookId

\* App renders view v with the tab list tv: in the reader view one Reader
\* per tab of the list, the hidden ones included; a reader that stays keeps
\* its state, a new one is mounted, the others are unmounted
Rendered(rs, v, tv) ==
  [t \in TabIds |->
     IF v = "reader" /\ (\E x \in tv : x.id = t)
       THEN IF rs[t].mounted THEN rs[t] ELSE NewReader(BookOfTab(tv, t))
       ELSE NoReader]

\* the cleanups of the session effects of the readers that old has and new
\* has not, from tab id t on: logReadingSession above 5000 ms
RECURSIVE LogClosed(_, _, _, _)
LogClosed(sessions, old, new, t) ==
  IF t > MaxTabIds THEN sessions
  ELSE LogClosed(
         IF /\ old[t].mounted
            /\ ~new[t].mounted
            /\ old[t].activeDuration > MinLogMs
           THEN logReadingSession(sessions, old[t].bookId,
                                  old[t].activeDuration)
           ELSE sessions,
         old, new, t + 1)

\* handleOpenBook(book) from a card of the library, up to its first await:
\* the tab of the document is looked up in the tab list of the render the
\* handler belongs to; a tab that is found is activated, else a tab is
\* saved unless the list has 5 tabs
handleOpenBookStart(b) ==
  /\ view = "library"
  /\ books[b].present
  /\ LET existing == {t \in tabsView : t.bookId = b}
     IN IF existing # {}
          THEN /\ \E t \in existing : activeTabId' = t.id
               /\ view' = "reader"
               /\ UNCHANGED <<tabs, nextTab, opening>>
          ELSE /\ Cardinality(tabsView) < MaxTabs
               /\ nextTab < MaxTabIds
               /\ tabs' = tabs \cup {[id |-> nextTab + 1, bookId |-> b]}
               /\ nextTab' = nextTab + 1
               /\ opening' = opening \cup {nextTab + 1}
               /\ UNCHANGED <<activeTabId, view>>
  /\ readers' = Rendered(readers, view', tabsView)
  /\ UNCHANGED <<tabsView, settingsDb, chosen, collections, readingSessions,
                 readerViewVars>>

\* handleOpenBook after await saveTab(newTab): the tab is made the active
\* one and the reader view is shown
handleOpenBookResume(id) ==
  /\ id \in opening
  /\ opening' = opening \ {id}
  /\ activeTabId' = id
  /\ view' = "reader"
  /\ readers' = Rendered(readers, "reader", tabsView)
  /\ UNCHANGED <<tabs, tabsView, nextTab, settingsDb, chosen, collections,
                 readingSessions, readerViewVars>>

\* the tabs live query delivers a new result and App renders it; the effect
\* on [tabs] restores a tab when none is active
TabsLiveQuery ==
  /\ tabsView # tabs
  /\ tabsView' = tabs
  /\ IF tabs # {} /\ activeTabId = 0
       THEN /\ \E t \in tabs : activeTabId' = t.id
            /\ view' = "reader"
       ELSE UNCHANGED <<activeTabId, view>>
  /\ readers' = Rendered(readers, view', tabs)
  /\ readingSessions' = LogClosed(readingSessions, readers, readers', 1)
  /\ UNCHANGED <<tabs, nextTab, opening, settingsDb, chosen, collections,
                 readerViewVars>>

\* handleSwitchTab(tabId): a click on a tab of the tab bar
handleSwitchTab(tabId) ==
  /\ view = "reader"
  /\ \E t \in tabsView : t.id = tabId
  /\ activeTabId # tabId
  /\ activeTabId' = tabId
  /\ UNCHANGED <<tabs, tabsView, nextTab, view, opening, readers, settingsDb,
                 chosen, collections, readingSessions, readerViewVars>>

\* handleCloseTab(e, tabId) with several tabs: deleteTab, then, if the tab
\* was the active one, the last tab of the rest of the list becomes active,
\* or the library is shown when no tab is left
handleCloseTabById(tabId) ==
  /\ view = "reader"
  /\ \E t \in tabsView : t.id = tabId
  /\ tabs' = {t \in tabs : t.id # tabId}
  /\ LET remaining == {t \in tabsView : t.id # tabId}
     IN IF activeTabId # tabId
          THEN UNCHANGED <<activeTabId, view>>
          ELSE IF remaining # {}
            THEN /\ \E t \in remaining : activeTabId' = t.id
                 /\ UNCHANGED view
            ELSE /\ activeTabId' = 0
                 /\ view' = "library"
  /\ readers' = Rendered(readers, view', tabsView)
  /\ readingSessions' = LogClosed(readingSessions, readers, readers', 1)
  /\ UNCHANGED <<tabsView, nextTab, opening, settingsDb, chosen, collections,
                 readerViewVars>>

\* onClose of a reader, and the button that opens another book: the
\* library is shown and every reader is unmounted
onClose ==
  /\ view = "reader"
  /\ view' = "library"
  /\ readers' = Rendered(readers, "library", tabsView)
  /\ readingSessions' = LogClosed(readingSessions, readers, readers', 1)
  /\ UNCHANGED <<tabs, tabsView, nextTab, activeTabId, opening, settingsDb,
                 chosen, collections, readerViewVars>>

(* ---------------- Reader.tsx in every tab: session tracking ----------- *)

\* one second passes: the setInterval callback of every mounted reader,
\* hidden or not, runs once
SecondPasses ==
  /\ \E t \in TabIds : readers[t].mounted
  /\ \A t \in TabIds :
       /\ ~(readers[t].idleTimeout.pending
            /\ readers[t].idleTimeout.dueIn = 0)
       /\ (readers[t].mounted /\ ~readers[t].isIdle) =>
            readers[t].activeDuration + TickMs <= MaxDurationMs
  /\ readers' =
       [t \in TabIds |->
          IF ~readers[t].mounted THEN readers[t]
          ELSE [readers[t] EXCEPT
                  !.activeDuration = IF readers[t].isIdle THEN @
                                     ELSE @ + TickMs,
                  !.idleTimeout = IF @.pending
                                    THEN [@ EXCEPT !.dueIn = @ - TickMs]
                                    ELSE @]]
  /\ UNCHANGED <<tabs, tabsView, nextTab, activeTabId, view, opening,
                 settingsDb, chosen, collections, readingSessions,
                 readerViewVars>>

\* a mousemove, keydown, click, scroll or touchstart reaches the window:
\* every mounted reader has registered handleUserActivity for it
WindowActivity ==
  /\ \E t \in TabIds : readers[t].mounted
  /\ readers' =
       [t \in TabIds |->
          IF ~readers[t].mounted THEN readers[t]
          ELSE [readers[t] EXCEPT
                  !.isIdle = FALSE,
                  !.idleTimeout = [pending |-> TRUE, dueIn |-> IdleMs]]]
  /\ UNCHANGED <<tabs, tabsView, nextTab, activeTabId, view, opening,
                 settingsDb, chosen, collections, readingSessions,
                 readerViewVars>>

\* the setTimeout callback armed by handleUserActivity of the reader of t
ReaderIdleFires(t) ==
  /\ readers[t].mounted
  /\ readers[t].idleTimeout.pending
  /\ readers[t].idleTimeout.dueIn = 0
  /\ readers' = [readers EXCEPT ![t].isIdle = TRUE,
                                ![t].idleTimeout = NoTimer]
  /\ UNCHANGED <<tabs, tabsView, nextTab, activeTabId, view, opening,
                 settingsDb, chosen, collections, readingSessions,
                 readerViewVars>>

(* ---------------- Reader.tsx in every tab: settings ---------------- *)

\* initSettings().then(setSettings) in the reader of t: the stored value,
\* or the defaults, which are stored; the save effect then puts the value
\* the reader has got
ReaderSettingsLoaded(t) ==
  /\ readers[t].mounted
  /\ readers[t].settings = NoSettings
  /\ LET value == IF settingsDb = NoSettings THEN DefaultSettings
                  ELSE settingsDb
     IN /\ readers' = [readers EXCEPT ![t].settings = value]
        /\ settingsDb' = value
  /\ UNCHANGED <<tabs, tabsView, nextTab, activeTabId, view, opening, chosen,
                 collections, readingSessions, readerViewVars>>

\* a theme button of the settings panel of the visible reader:
\* setSettings({...settings, theme}); the save effect puts the whole value
setTheme(t, theme) ==
  /\ view = "reader"
  /\ t = activeTabId
  /\ readers[t].mounted
  /\ readers[t].settings # NoSettings
  /\ readers' = [readers EXCEPT ![t].settings.theme = theme]
  /\ settingsDb' = readers'[t].settings
  /\ chosen' = [chosen EXCEPT !.theme = theme]
  /\ UNCHANGED <<tabs, tabsView, nextTab, activeTabId, view, opening,
                 collections, readingSessions, readerViewVars>>

\* the font-size slider of the settings panel of the visible reader, which
\* a document that is not a PDF has: setSettings({...settings, fontSize});
\* the save effect puts the whole value
setFontSize(t, fontSize) ==
  /\ view = "reader"
  /\ t = activeTabId
  /\ readers[t].mounted
  /\ BookFormat(readers[t].bookId) # "pdf"
  /\ readers[t].settings # NoSettings
  /\ readers' = [readers EXCEPT ![t].settings.fontSize = fontSize]
  /\ settingsDb' = readers'[t].settings
  /\ chosen' = [chosen EXCEPT !.fontSize = fontSize]
  /\ UNCHANGED <<tabs, tabsView, nextTab, activeTabId, view, opening,
                 collections, readingSessions, readerViewVars>>

(* ---------------- db.ts: collections ---------------- *)

\* createCollection(name, color, icon), from the collections panel of the
\* library: a record with a fresh id and no books
createCollection ==
  /\ ~mounted
  /\ \E c \in Collections :
       /\ ~collections[c].drawn
       /\ \A d \in Collections : d < c => collections[d].drawn
       /\ collections' = [collections EXCEPT ![c] =
                            [present |-> TRUE, drawn |-> TRUE,
                             bookIds |-> {}]]
  /\ UNCHANGED <<book, mounted, sessionVars, viewVars, tabs, tabsView,
                 nextTab, activeTabId, view, opening, readers, settingsDb,
                 chosen>>

\* toggleBookInCollection(bookId, collectionId), from the context menu of
\* a document or from the collections panel: one transaction; whether the
\* document is a member is read from the bookIds of the collection
toggleBookInCollection(bookId, collectionId) ==
  /\ ~mounted
  /\ collections[collectionId].present
  /\ books[bookId].present
  /\ LET isIn == bookId \in collections[collectionId].bookIds
     IN /\ collections' =
             [collections EXCEPT ![collectionId].bookIds =
                IF isIn THEN @ \ {bookId} ELSE @ \cup {bookId}]
        /\ books' =
             [books EXCEPT ![bookId].collectionIds =
                IF isIn THEN @ \ {collectionId} ELSE @ \cup {collectionId}]
  /\ UNCHANGED <<book, mounted, sessionVars, pdfVars, renderDeps, renders,
                 renderTaskRef, canvas, textLayer, pdfRendering, superseded,
                 tabVars, bookmarkVars, highlightVars, tabs, tabsView,
                 nextTab, activeTabId, view, opening, readers, settingsDb,
                 chosen>>

\* deleteCollection(id), from the collections panel: one transaction; the
\* id is taken out of the collectionIds of the documents bulkGet finds
\* for collection.bookIds, then the collection is deleted
deleteCollection(id) ==
  /\ ~mounted
  /\ collections[id].present
  /\ books' = [b \in Books |->
                 IF b \in collections[id].bookIds /\ books[b].present
                   THEN [books[b] EXCEPT !.collectionIds = @ \ {id}]
                   ELSE books[b]]
  /\ collections' = [collections EXCEPT ![id] =
                       [present |-> FALSE, drawn |-> TRUE, bookIds |-> {}]]
  /\ UNCHANGED <<book, mounted, sessionVars, pdfVars, renderDeps, renders,
                 renderTaskRef, canvas, textLayer, pdfRendering, superseded,
                 tabVars, bookmarkVars, highlightVars, tabs, tabsView,
                 nextTab, activeTabId, view, opening, readers, settingsDb,
                 chosen>>

ReaderInit ==
  /\ settings = FALSE
  /\ pdfDoc = FALSE
  /\ numPages = 0
  /\ pdfPageNum = 1
  /\ renderDeps = [doc |-> FALSE, page |-> 1, settings |-> FALSE]
  /\ renders = [r \in RenderSlots |-> FreeSlot]
  /\ renderTaskRef = 0
  /\ canvas = {}
  /\ textLayer = {}
  /\ pdfRendering = FALSE
  /\ books = [b \in Books |->
                [present |-> TRUE, currentPage |-> 1, totalPages |-> 0,
                 progress |-> [num |-> 0, den |-> 1], collectionIds |-> {}]]
  /\ startPage = 1
  /\ lastRequest = NoRequest
  /\ loadFailed = FALSE
  /\ superseded = FALSE
  /\ tab = book
  /\ tabLocation = NoLocation
  /\ bookmarks = {}
  /\ bookmarksView = {}
  /\ nextBookmark = 0
  /\ lastOps = <<>>
  /\ highlights = {}
  /\ highlightsView = {}
  /\ nextHighlight = 0
  /\ selectionMenu = NoMenu
  /\ activeHighlightId = 0
  /\ selectionPending = FALSE
  /\ epubRendition = FALSE
  /\ annotations = {}
  /\ deletedHighlights = {}
  /\ clickTimer = 0

SessionInit ==
  /\ book \in Books
  /\ mounted = TRUE
  /\ isIdle = FALSE
  /\ idleTimeout = NoTimer
  /\ activeDuration = 0
  /\ readingSessions = <<>>
  /\ signalled = FALSE
  /\ quietMs = 0
  /\ onScenario = TRUE
  /\ scenarioMs = 0

\* App after construction: the library is shown, no tab is active, and
\* the tables of tabs, settings and collections are empty
AppInit ==
  /\ tabs = {}
  /\ tabsView = {}
  /\ nextTab = 0
  /\ activeTabId = 0
  /\ view = "library"
  /\ opening = {}
  /\ readers = [t \in TabIds |-> NoReader]
  /\ settingsDb = NoSettings
  /\ chosen = DefaultSettings
  /\ collections = [c \in Collections |-> NoCollection]

Init == SessionInit /\ ReaderInit /\ AppInit

SessionNext ==
  \/ handleUserActivity
  \/ IntervalTick
  \/ IdleTimeoutFires
  \/ SettingsLoaded
  \/ CloseBook
  \/ handleCloseTab

SessionSpec == Init /\ [][SessionNext]_vars

\* session tracking with every way a view ends
TeardownNext ==
  \/ SessionNext
  \/ AppExit

TeardownSpec == Init /\ [][TeardownNext]_vars

PageDeltas == {0 - 1, 1}

RenderNext ==
  \/ SettingsLoaded
  \/ LoadPdfDone
  \/ \E delta \in PageDeltas : changePdfPage(delta)
  \/ RenderPageEffect
  \/ \E r \in RenderSlots, rejected \in BOOLEAN : RasterStart(r, rejected)
  \/ \E r \in RenderSlots : RasterCompletes(r)
  \/ \E r \in RenderSlots, threw \in BOOLEAN : TextLayerBuilt(r, threw)

RenderSpec == Init /\ [][RenderNext]_vars

\* rendering and navigation, with highlights committed from selections
OverlayNext ==
  \/ RenderNext
  \/ handleTextSelection
  \/ SelectionTimer("inside")
  \/ nextHighlight < NavMaxHighlights /\ ColourButton("yellow")
  \/ HighlightsLiveQuery

OverlaySpec == Init /\ [][OverlayNext]_vars

\* rendering, with a document whose bytes cannot be read or parsed
LoadNext ==
  \/ RenderNext
  \/ LoadPdfFails

LoadSpec == Init /\ [][LoadNext]_vars

BookmarkNext ==
  \/ SettingsLoaded
  \/ LoadPdfDone
  \/ \E delta \in PageDeltas : changePdfPage(delta)
  \/ \E type \in BookmarkTypes : handleToggleBookmark(type, 0)
  \/ BookmarksLiveQuery
  \/ \E b \in bookmarksView : handleJumpToBookmark(b)
  \/ \E b \in bookmarksView : PanelDeleteBookmark(b)

BookmarkSpec == Init /\ [][BookmarkNext]_vars

\* bookmarks with the thumbnails the canvas can yield
ThumbnailNext ==
  \/ SettingsLoaded
  \/ LoadPdfDone
  \/ \E delta \in PageDeltas : changePdfPage(delta)
  \/ \E thumb \in ThumbLengths : handleToggleBookmark("standard", thumb)
  \/ BookmarksLiveQuery

ThumbnailSpec == Init /\ [][ThumbnailNext]_vars

\* the book that was closed is opened again from the library
OpenFromLibrary == handleOpenBook(book, FALSE, NoLocation)

OpenFromQuotes ==
  \E h \in highlights :
    handleOpenBook(h.bookId, TRUE, [page |-> h.page, cfi |-> h.cfiRange])

HighlightNext ==
  \/ SettingsLoaded
  \/ LoadPdfDone
  \/ handleTextSelection
  \/ \E kind \in SelectionKinds : SelectionTimer(kind)
  \/ \E hl \in highlightsView : HighlightClick(hl)
  \/ \E color \in HighlightColors : ColourButton(color)
  \/ handleCopy
  \/ handleDeleteHighlight
  \/ \E h \in highlights : QuotesDeleteHighlight(h)
  \/ HighlightsLiveQuery
  \/ CloseBook
  \/ handleCloseTab
  \/ OpenFromLibrary
  \/ OpenFromQuotes

HighlightSpec == Init /\ [][HighlightNext]_vars

\* the render effect has run for the current page and no renderPage
\* invocation is in flight
RenderIdle ==
  /\ renderDeps = CurrentDeps
  /\ \A r \in RenderSlots : renders[r].pc = "free"

\* what the reader does between two renders: page deltas, bookmark jumps,
\* closing, and opening with a resume or explicit page
NavUser ==
  \/ \E delta \in PageDeltas : changePdfPage(delta)
  \/ nextBookmark < NavMaxBookmarks /\ handleToggleBookmark("standard", 0)
  \/ \E b \in bookmarksView : handleJumpToBookmark(b)
  \/ handleTextSelection
  \/ SelectionTimer("inside")
  \/ nextHighlight < NavMaxHighlights /\ ColourButton("yellow")
  \/ CloseBook
  \/ handleCloseTab
  \/ OpenFromLibrary
  \/ OpenFromQuotes

\* navigation, and the renders that persist the current page
NavNext ==
  \/ SettingsLoaded
  \/ LoadPdfDone
  \/ RenderPageEffect
  \/ \E r \in RenderSlots, rejected \in BOOLEAN : RasterStart(r, rejected)
  \/ \E r \in RenderSlots : RasterCompletes(r)
  \/ \E r \in RenderSlots, threw \in BOOLEAN : TextLayerBuilt(r, threw)
  \/ BookmarksLiveQuery
  \/ RenderIdle /\ NavUser

NavSpec == Init /\ [][NavNext]_vars

\* the reader annotates before the first tick of a reading
LibraryUser ==
  \/ nextBookmark < NavMaxBookmarks /\ handleToggleBookmark("standard", 0)
  \/ handleTextSelection
  \/ SelectionTimer("inside")
  \/ nextHighlight < NavMaxHighlights /\ ColourButton("yellow")

\* the moments at which a reading is ended: at once, after the minute a
\* session needs, or when the counter is at its bound
ClosingTime ==
  \/ activeDuration = 0
  \/ activeDuration = MinSessionMs
  \/ activeDuration + TickMs > MaxDurationMs

\* the view is loaded and no selection is being handled
ViewAtRest ==
  /\ settings
  /\ BookFormat(book) = "pdf" => pdfDoc
  /\ ~selectionPending
  /\ ~selectionMenu.open

\* the library between two readings: documents are opened, annotated, read
\* for a while, closed and deleted
LibraryNext ==
  \/ SettingsLoaded
  \/ LoadPdfDone
  \/ ViewAtRest /\ IntervalTick
  \/ activeDuration = 0 /\ LibraryUser
  \/ ClosingTime /\ (CloseBook \/ handleCloseTab)
  \/ /\ Len(readingSessions) < LibMaxSessions
     /\ \E b \in Books : handleOpenBook(b, FALSE, NoLocation)
  \/ \E id \in Books : deleteBook(id)

LibrarySpec == Init /\ [][LibraryNext]_vars

\* documents are opened in tabs from the library, one request after the
\* other or several at a time, and the reader goes back to the library
TabsNext ==
  \/ /\ Cardinality(opening) < MaxOpening
     /\ \E b \in Books : handleOpenBookStart(b)
  \/ \E id \in TabIds : handleOpenBookResume(id)
  \/ TabsLiveQuery
  \/ onClose

TabsSpec == Init /\ [][TabsNext]_vars

\* a card of the library is clicked while fewer than MultiMaxTabs tabs have
\* been created, or the card of a document that has a tab
OpenWithinBound ==
  \E b \in Books :
    /\ nextTab < MultiMaxTabs \/ (\E t \in tabsView : t.bookId = b)
    /\ handleOpenBookStart(b)

\* what the reader does with at most MultiMaxTabs tabs: open, switch,
\* close, go back to the library
MultiUser ==
  \/ OpenWithinBound
  \/ \E id \in TabIds : handleOpenBookResume(id)
  \/ TabsLiveQuery
  \/ \E tabId \in TabIds : handleSwitchTab(tabId)
  \/ \E tabId \in TabIds : handleCloseTabById(tabId)
  \/ onClose

\* the moments at which the tabs are changed: before the first tick of the
\* readers, after the minute a session needs, or at the bound of a counter
ReadersClosingTime ==
  \A t \in TabIds :
    readers[t].mounted =>
      \/ readers[t].activeDuration = 0
      \/ readers[t].activeDuration = MinSessionMs
      \/ readers[t].activeDuration + TickMs > MaxDurationMs

\* the moments at which the window gets an event: no reader has a timer
\* running, or the timer of one is about to fire
ReadersQuiet ==
  \/ \A t \in TabIds : /\ ~readers[t].idleTimeout.pending
                        /\ readers[t].activeDuration = 0
  \/ \E t \in TabIds : /\ readers[t].idleTimeout.pending
                        /\ readers[t].idleTimeout.dueIn <= TickMs

\* the tabs are changed at those moments, until the sessions table has
\* LibMaxSessions rows
TabsMayChange ==
  ReadersClosingTime /\ Len(readingSessions) < LibMaxSessions

\* no open request is in flight and the tab list on screen is the stored one
AppAtRest == opening = {} /\ tabsView = tabs

\* several tabs and the session tracking of their readers
SharedNext ==
  \/ TabsMayChange /\ OpenWithinBound
  \/ TabsMayChange /\ \E id \in TabIds : handleOpenBookResume(id)
  \/ TabsMayChange /\ TabsLiveQuery
  \/ TabsMayChange /\ \E tabId \in TabIds : handleSwitchTab(tabId)
  \/ TabsMayChange /\ \E tabId \in TabIds : handleCloseTabById(tabId)
  \/ TabsMayChange /\ onClose
  \/ AppAtRest /\ SecondPasses
  \/ AppAtRest /\ ReadersQuiet /\ WindowActivity
  \/ \E t \in TabIds : ReaderIdleFires(t)

SharedSpec == Init /\ [][SharedNext]_vars

\* several tabs and the settings of their readers
SettingsNext ==
  \/ MultiUser
  \/ \E t \in TabIds : ReaderSettingsLoaded(t)
  \/ \E t \in TabIds, theme \in Themes : setTheme(t, theme)
  \/ \E t \in TabIds, fontSize \in FontSizes : setFontSize(t, fontSize)

SettingsSpec == Init /\ [][SettingsNext]_vars

\* the library with its collections: documents are opened, closed, put
\* into collections and deleted
CollectionNext ==
  \/ SettingsLoaded
  \/ CloseBook
  \/ handleCloseTab
  \/ OpenFromLibrary
  \/ createCollection
  \/ \E b \in Books, c \in Collections : toggleBookInCollection(b, c)
  \/ \E c \in Collections : deleteCollection(c)
  \/ \E id \in Books : deleteBook(id)

CollectionSpec == Init /\ [][CollectionNext]_vars

\* a document of any format is opened, bookmarked and closed.  The load
\* effect of a flowed document has the dependencies [book.id, book.format],
\* so it runs once, at mount, when settings is null and the container, which
\* is rendered with the settings only, is not attached: loadEpub is never
\* called and no step of the view sets epubRendition or epubReady
FlowedNext ==
  \/ SettingsLoaded
  \/ LoadPdfDone
  \/ \E type \in BookmarkTypes : handleToggleBookmark(type, 0)
  \/ BookmarksLiveQuery
  \/ \E b \in bookmarksView : handleJumpToBookmark(b)
  \/ \E b \in bookmarksView : PanelDeleteBookmark(b)
  \/ CloseBook
  \/ handleCloseTab
  \/ OpenFromLibrary

\* initSettings resolves: the promise of a local read is always settled
FlowedSpec == Init /\ [][FlowedNext]_vars /\ WF_vars(SettingsLoaded)

Next ==
  \/ TabsNext
  \/ SharedNext
  \/ SettingsNext
  \/ CollectionNext
  \/ FlowedNext
  \/ TeardownNext
  \/ RenderNext
  \/ BookmarkNext
  \/ ThumbnailNext
  \/ HighlightNext
  \/ NavNext
  \/ LibraryNext
  \/ LoadNext
  \/ OverlayNext

Spec == Init /\ [][Next]_vars

(* ---------------- session claims ---------------- *)

\* C1 as stated: once the reader view is gone, because the book or its
\* tab was closed or the application exited, a ReadingSession for its
\* document is persisted if and only if the accumulated active duration is
\* at least 60 000 ms; for a smaller duration nothing is written.
C1_AsStated ==
  ~mounted =>
    IF activeDuration >= 60000
      THEN readingSessions = <<[bookId |-> book, duration |-> activeDuration]>>
      ELSE readingSessions = <<>>

ScenarioToleranceMs == 2 * TickMs

\* the view was torn down right after 30 s of activity, 90 s without a
\* signal and 40 s of activity
ScenarioDone ==
  /\ ~mounted
  /\ onScenario
  /\ scenarioMs = ScenarioTotalMs

Within(x, target, tolerance) ==
  /\ x >= target - tolerance
  /\ x <= target + tolerance

\* C2 as stated: 30 s of activity, 90 s with no signal, 40 s of activity
\* yields a persisted duration of about 70 s.
C2_AsStated ==
  ScenarioDone =>
    /\ Len(readingSessions) = 1
    /\ Within(readingSessions[1].duration,
              ScenarioBusy1Ms + ScenarioBusy2Ms, ScenarioToleranceMs)

\* C2, amended: the active-duration counter advances only by one tick and
\* only while the tracker is Active; the tracker stays Active for the 60 s
\* that follow the last signal, so the 30 s / 90 s / 40 s scenario persists
\* about 130 s: the two busy periods and the first 60 s of the quiet one.
C2_IdleTicksNotCounted ==
  /\ [][activeDuration' # activeDuration =>
          /\ ~isIdle
          /\ activeDuration' = activeDuration + TickMs]_vars
  /\ [](ScenarioDone =>
          /\ Len(readingSessions) = 1
          /\ readingSessions[1].bookId = book
          /\ readingSessions[1].duration = activeDuration
          /\ Within(activeDuration,
                    ScenarioBusy1Ms + IdleMs + ScenarioBusy2Ms,
                    ScenarioToleranceMs))

\* the scenario has run to its end and its session is persisted
C2_Witness ==
  /\ ScenarioDone
  /\ isIdle = FALSE
  /\ Len(readingSessions) = 1
  /\ readingSessions[1].duration > ScenarioBusy1Ms + ScenarioBusy2Ms

\* C3 as stated: in an open view the tracker is Idle once 60 s have passed
\* with no activity signal, counted from the last signal or from the view
\* opening; a signal makes it Active at once and reschedules the idle timer.
C3_AsStated ==
  mounted =>
    /\ quietMs >= IdleMs => isIdle
    /\ signalled =>
         /\ ~isIdle
         /\ idleTimeout = [pending |-> TRUE, dueIn |-> IdleMs]

(* ---------------- render claims ---------------- *)

\* no renderPage invocation is in flight and the effect has run for the
\* current page
RendersSettled ==
  /\ mounted
  /\ pdfDoc
  /\ settings
  /\ renderDeps = CurrentDeps
  /\ \A r \in RenderSlots : renders[r].pc = "free"

\* C4 as stated: whatever the stage at which a render was superseded, once
\* the renders have ended the canvas and the text layer show the page that
\* was requested last, and only that page.
C4_AsStated ==
  RendersSettled => canvas = {pdfPageNum} /\ textLayer = {pdfPageNum}

(* ---------------- navigation claims ---------------- *)

\* C5: once the document is loaded the current page is within
\* [1, pageCount] after any page deltas, bookmark jumps and opens with a
\* resume or explicit page, and a request that leaves the range changes
\* nothing.
C5_PageInRange ==
  mounted /\ pdfDoc =>
    /\ pdfPageNum >= 1
    /\ pdfPageNum <= numPages
    /\ lastRequest # NoRequest => pdfPageNum = lastRequest.from

\* a delta past the last page was requested and the page stayed
C5_Witness ==
  /\ mounted
  /\ pdfDoc
  /\ lastRequest = [from |-> numPages, to |-> numPages + 1]
  /\ pdfPageNum = numPages
  /\ tabLocation.page > 1

(* ---------------- bookmark claims ---------------- *)

\* C6 as stated: there is never more than one persisted bookmark for the
\* same (document, page) pair, under any interleaving of toggle requests.
C6_AsStated ==
  \A d \in Books, p \in Pages : BookmarksAt(d, p) <= 1

\* the last two writes to db.bookmarks were toggles on the current page of
\* a paginated document, with no page change in between, and the page had
\* no bookmark, stored or shown, before the first
TwoTogglesFromNone ==
  /\ Len(lastOps) = 2
  /\ lastOps[1].kind = "toggle"
  /\ lastOps[2].kind = "toggle"
  /\ BookFormat(lastOps[1].bookId) = "pdf"
  /\ lastOps[2].bookId = lastOps[1].bookId
  /\ lastOps[2].page = lastOps[1].page
  /\ lastOps[1].before = 0
  /\ ~lastOps[1].saw

\* C7 as stated: toggling the bookmark twice on the same page of a
\* paginated document returns it to zero bookmarks at that page.
C7_AsStated ==
  TwoTogglesFromNone =>
    BookmarksAt(lastOps[1].bookId, lastOps[1].page) = 0

\* a favorite toggle, then a standard toggle, on one page that had no
\* bookmark
FavoriteThenStandard ==
  /\ TwoTogglesFromNone
  /\ lastOps[1].type = "favorite"
  /\ lastOps[2].type = "standard"

\* C8 as stated: a favorite toggle and then a standard toggle on one page
\* result in exactly one bookmark at that page.
C8_AsStated ==
  FavoriteThenStandard =>
    BookmarksAt(lastOps[1].bookId, lastOps[1].page) = 1

\* C8, amended: a favorite toggle and then a standard toggle on a page that
\* had no bookmark leave no bookmark at that page when the view had rendered
\* the favorite before the second toggle (the second toggle deletes it), and
\* two bookmarks, the favorite and the standard one, when it had not.
C8_FavoriteThenStandard ==
  FavoriteThenStandard =>
    LET at == {b \in bookmarks : /\ b.bookId = lastOps[1].bookId
                                 /\ b.page = lastOps[1].page}
    IN IF lastOps[2].saw
         THEN at = {}
         ELSE /\ Cardinality(at) = 2
              /\ {b.type : b \in at} = {"favorite", "standard"}

\* the second toggle found the favorite in the view and removed it
C8_Witness ==
  /\ FavoriteThenStandard
  /\ lastOps[2].saw
  /\ BookmarksAt(lastOps[1].bookId, lastOps[1].page) = 0

\* C9 as stated: no persisted bookmark carries a thumbnail of the size cap
\* or more.
C9_AsStated ==
  \A b \in bookmarks : b.thumbnail < ThumbCap

\* the last write to db.bookmarks was a toggle that added a bookmark
LastToggleAdded ==
  /\ lastOps # <<>>
  /\ lastOps[Len(lastOps)].kind = "toggle"
  /\ ~lastOps[Len(lastOps)].saw

\* C9, amended: no persisted bookmark carries a thumbnail of more than
\* 500 000 characters; a thumbnail above the cap is dropped and the bookmark
\* is still saved with its other fields, and a thumbnail of exactly the cap
\* is persisted with it.
C9_ThumbnailCap ==
  /\ \A b \in bookmarks : b.thumbnail <= 500000
  /\ LastToggleAdded =>
       LET op == lastOps[Len(lastOps)]
       IN \E b \in bookmarks :
            /\ b.id = nextBookmark
            /\ b.bookId = op.bookId
            /\ b.page = op.page
            /\ b.type = op.type
            /\ b.thumbnail = IF op.thumb > 500000 THEN 0 ELSE op.thumb

\* a bookmark whose thumbnail was above the cap is stored without it
C9_Witness ==
  /\ LastToggleAdded
  /\ lastOps[Len(lastOps)].thumb = ThumbCap + 1
  /\ \E b \in bookmarks : b.id = nextBookmark /\ b.thumbnail = 0

(* ---------------- highlight claims ---------------- *)

\* C10: a highlight deleted from the reader's menu or from the quotes view
\* is in no later getBookHighlights result of any document, and no
\* annotation for its anchor token is registered in an open reader of its
\* document.
C10_DeletedHighlightGone ==
  \A d \in deletedHighlights :
    /\ \A b \in Books :
         \A h \in getBookHighlights(highlights, b) : h.id # d.id
    /\ (mounted /\ book = d.bookId) => d.cfiRange \notin annotations

\* one highlight was deleted from the menu and one from the quotes view
C10_Witness ==
  /\ \E d \in deletedHighlights : d.via = "reader"
  /\ \E d \in deletedHighlights : d.via = "quotes"
  /\ mounted

(* ---------------- library claims ---------------- *)

\* the dependents of document d that are stored
DependentsOf(d) ==
  [highlights |-> {h \in highlights : h.bookId = d},
   bookmarks |-> {b \in bookmarks : b.bookId = d},
   sessions |-> SelectSeq(readingSessions, LAMBDA s : s.bookId = d),
   tabs |-> IF tab = d THEN {d} ELSE {}]

NoDependents == [highlights |-> {}, bookmarks |-> {}, sessions |-> <<>>,
                 tabs |-> {}]

\* C11: after deleteBook(id) no highlight, bookmark, reading session or tab
\* of the document remains, and there is no state in which the document is
\* gone from db.books while one of its highlights or bookmarks is stored.
C11_CascadeDelete ==
  /\ [][\A id \in Books :
          books[id].present /\ ~books'[id].present =>
            DependentsOf(id)' = NoDependents]_vars
  /\ [](\A d \in Books :
          ~books[d].present => DependentsOf(d) = NoDependents)

\* a document that had a highlight, a bookmark, a reading session and a tab
\* was deleted
C11_Witness ==
  /\ ~mounted
  /\ ~books[book].present
  /\ activeDuration >= MinSessionMs
  /\ nextHighlight >= 1
  /\ nextBookmark >= 1
  /\ deletedHighlights = {}
  /\ DependentsOf(book) = NoDependents

(* ---------------- resume claims ---------------- *)

\* C12 as stated: opening a paginated document from the library with no
\* target location resumes at its last persisted page, after any earlier
\* opens of that document, an open at a highlight from the quotes view
\* whose tab stayed open included.
C12_AsStated ==
  [][\A b \in Books :
       handleOpenBook(b, FALSE, NoLocation) /\ BookFormat(b) = "pdf" =>
         /\ pdfPageNum' = books[b].currentPage
         /\ startPage' = books[b].currentPage]_vars

(* ---------------- load failure claims ---------------- *)

\* C13 as stated: when reading or parsing the bytes of the document has
\* failed, the reader is in an explicit error state for it, and stays
\* there; it is never left with a blank view or an endless loading state.
C13_AsStated ==
  mounted /\ settings /\ loadFailed => ReaderShows = "error"

(* ---------------- highlight anchoring claims ---------------- *)

\* the anchoring fields highlight h carries
AnchorFields(h) ==
  (IF h.page # 0 THEN {"page"} ELSE {})
    \cup (IF h.rects THEN {"rects"} ELSE {})
    \cup (IF h.cfiRange # "" THEN {"cfiRange"} ELSE {})
    \cup (IF h.range THEN {"range"} ELSE {})

\* the anchoring fields of the one kind that belongs to a format
FormatAnchor(format) ==
  IF format = "pdf" THEN {"page", "rects"}
  ELSE IF format = "epub" THEN {"cfiRange"}
  ELSE {"range"}

\* C14 as stated: every persisted highlight carries exactly one kind of
\* anchoring data, the kind of its document's format: page number and
\* normalized rectangles for a paginated document, an anchor-range token
\* for a flowed one, a character start/end pair for plain text.
C14_AsStated ==
  \A h \in highlights : AnchorFields(h) = FormatAnchor(BookFormat(h.bookId))

(* ---------------- overlay claims ---------------- *)

\* the rectangles the stored highlights of the open document have on page p
StoredRects(p) ==
  {[id |-> h.id, rects |-> h.rects] :
     h \in {g \in getBookHighlights(highlights, book) :
              g.page = p /\ g.rects}}

\* C15 as stated: whenever page p of a paginated document is displayed, the
\* overlay holds one rectangle per stored rect of every highlight whose
\* stored page is p, at the stored position, and no rectangle of a
\* highlight of another page, also after navigating away and back.  It is
\* stated for a view whose renders have ended and whose live query is up
\* to date; the page displayed is the one drawn on the canvas.
C15_AsStated ==
  (RendersSettled /\ highlightsView = getBookHighlights(highlights, book))
    => \A p \in canvas : Overlay = StoredRects(p)

(* ---------------- selection claims ---------------- *)

\* C16 as stated: a click on a rectangle of a highlight opens the action
\* menu with that highlight as the active one, and when the deferred
\* selection check started by the mouseup of the same click has run the
\* menu is still open for that highlight and carries no selection payload.
C16_AsStated ==
  [][(/\ clickTimer # 0
      /\ activeHighlightId = clickTimer
      /\ selectionMenu.open
      /\ clickTimer' = 0
      /\ mounted')
       => /\ selectionMenu'.open
          /\ ~selectionMenu'.rects
          /\ activeHighlightId' = clickTimer]_vars

\* C17 as stated: when the deferred selection check finds a collapsed
\* selection, or one whose text is empty after trimming, the pending
\* selection payload is cleared.
C17_AsStated ==
  [][(SelectionTimer("collapsed") \/ SelectionTimer("blank"))
       => selectionMenu' = NoMenu]_vars

\* C18 as stated: for every format, a selection that lies outside the
\* content region of the renderer neither creates nor changes a selection
\* payload.
C18_AsStated ==
  [][SelectionTimer("outside") => selectionMenu' = selectionMenu]_vars

(* ---------------- drawing order claims ---------------- *)

\* C19 as stated: the highlights of one paginated page are drawn in
\* creation order, so of two of them the one created later is drawn later
\* and lies on top.
C19_AsStated ==
  BookFormat(book) = "pdf" =>
    \A g \in highlightsView, h \in highlightsView :
      (g.page = pdfPageNum /\ h.page = pdfPageNum
         /\ g.createdAt < h.createdAt) => DrawnBefore(g, h)

(* ---------------- percentage claims ---------------- *)

\* the fraction f is a number of [0, 100]; a division by zero is not
InPercentRange(f) ==
  /\ f.den > 0
  /\ f.num >= 0
  /\ f.num <= 100 * f.den

\* C20 as stated: every persisted progress value of a document and every
\* persisted percentage of a bookmark is a number within [0, 100], also
\* for a render or a toggle made while the page count is still 0.
C20_AsStated ==
  /\ \A b \in Books : books[b].present => InPercentRange(books[b].progress)
  /\ \A b \in bookmarks : InPercentRange(b.percentage)

(* ---------------- render cancellation claims ---------------- *)

\* C21: a render cancelled because a newer request superseded it leaves no
\* error state, and once the last requested render has finished the
\* rendering indicator is off and the view shows a page.
C21_CancelledRenderSilent ==
  /\ mounted => ReaderShows # "error"
  /\ RendersSettled => ~pdfRendering /\ ReaderShows = "page"

\* a render task was cancelled by a newer request and the renders have ended
C21_Witness ==
  /\ RendersSettled
  /\ superseded
  /\ ~pdfRendering
  /\ canvas = {pdfPageNum}

(* ---------------- flowed and plain-text bookmark claims --------------- *)

\* the last two writes to db.bookmarks were toggles in one view of a flowed
\* or plain-text document
TwoTogglesNotPaginated ==
  /\ Len(lastOps) = 2
  /\ lastOps[1].kind = "toggle"
  /\ lastOps[2].kind = "toggle"
  /\ BookFormat(lastOps[1].bookId) # "pdf"
  /\ lastOps[2].bookId = lastOps[1].bookId

\* C30: for a flowed or plain-text document a bookmark toggle never deletes
\* a bookmark and adds exactly one, whatever the view shows, so two toggles
\* at one location leave two bookmarks more for the document.
C30_ToggleAlwaysAdds ==
  /\ [][\A type \in BookmarkTypes :
          (BookFormat(book) # "pdf" /\ handleToggleBookmark(type, 0)) =>
            /\ bookmarks \subseteq bookmarks'
            /\ Cardinality(bookmarks') = Cardinality(bookmarks) + 1]_vars
  /\ [](TwoTogglesNotPaginated =>
          /\ ~lastOps[1].saw
          /\ ~lastOps[2].saw
          /\ lastOps[2].before = lastOps[1].before + 1
          /\ BookmarksAt(lastOps[1].bookId, 0) = lastOps[1].before + 2)

\* the second toggle was made with the first bookmark shown in the view
C30_Witness ==
  /\ TwoTogglesNotPaginated
  /\ BookFormat(book) = "txt"
  /\ lastOps[2].before = 1
  /\ Cardinality(bookmarksView) = 1
  /\ BookmarksAt(book, 0) = 2

(* ---------------- flowed load claims ---------------- *)

\* C24 as stated: an open view of a flowed document eventually has its
\* renderer initialised and leaves the loading state, with the settings
\* loaded after the first render and the load effect run at mount only.
C24_AsStated ==
  (mounted /\ BookFormat(book) = "epub")
    ~> (~mounted \/ (epubRendition /\ ReaderShows = "content"))

(* ---------------- progress persistence claims ---------------- *)

\* C23 as stated: once the renders in flight have ended, the persisted
\* currentPage of the open document, and the progress derived from it, are
\* those of the page finally displayed; it is stated for the views whose
\* canvas shows the page requested last.
C23_AsStated ==
  (RendersSettled /\ canvas = {pdfPageNum}) =>
    /\ books[book].currentPage = pdfPageNum
    /\ books[book].progress = [num |-> pdfPageNum * 100, den |-> numPages]

(* ---------------- collection claims ---------------- *)

\* C29 as stated: after any sequence of toggleBookInCollection,
\* deleteCollection and deleteBook, a document id is in the bookIds of a
\* collection exactly when the document exists with the id of the collection
\* in its collectionIds, so no id of bookIds names a deleted document.
C29_AsStated ==
  \A c \in Collections :
    collections[c].present =>
      \A b \in Books :
        b \in collections[c].bookIds <=>
          (books[b].present /\ c \in books[b].collectionIds)

(* ---------------- tab claims ---------------- *)

\* C27 as stated: after any sequence of open-book requests, two requests
\* issued before the tab list has refreshed included, there are never more
\* than 5 tabs and never two tabs for the same document.
C27_AsStated ==
  /\ Cardinality(tabs) <= 5
  /\ \A t \in tabs, u \in tabs : t.bookId = u.bookId => t.id = u.id

(* ---------------- claims on several tabs ---------------- *)

\* C25 as stated: with several tabs open only the reader of the active tab
\* accumulates active reading time; no step increases the duration counter
\* of a reader mounted in a hidden tab.
C25_AsStated ==
  [][\A t \in TabIds :
       (/\ readers[t].mounted
        /\ readers'[t].mounted
        /\ readers'[t].activeDuration > readers[t].activeDuration)
         => t = activeTabId]_vars

\* C28 as stated: with two reader views open, the persisted ReadingSettings
\* holds, field by field, the value the user chose last in any view; a later
\* write of a view that loaded its settings earlier and changed another
\* field does not bring an older value back.
C28_AsStated ==
  settingsDb # NoSettings => settingsDb = chosen

(* ---------------- colour choice claims ---------------- *)

\* C26 as stated: a colour chosen in the selection menu for a fresh text
\* selection creates a highlight and recolours none; whenever the payload
\* of a new selection is pending, no highlight clicked before is still the
\* active one.
C26_AsStated ==
  (mounted /\ selectionMenu.open /\ selectionMenu.rects)
    => activeHighlightId = 0

====
